---------------------------- MODULE Spec2Model ----------------------------
(***************************************************************************)
(* BeanHopp client: the home screen's search (frontend/app/(tabs)/         *)
(* gifts.tsx, second component of the file): the debounced handleSearch,   *)
(* the local ranker performLocalSearch, calculateSimilarity and            *)
(* levenshteinDistance; the cart, notification and auth stores             *)
(* (frontend/src/stores); and handlePlaceOrder of the checkout screen      *)
(* (frontend/app/checkout.tsx, first component of the file).               *)
(*                                                                         *)
(* A JavaScript string is modelled as a sequence of one-character strings. *)
(* null / undefined is the value NULL, which is no string of any input set.*)
(***************************************************************************)
EXTENDS Integers, Sequences, FiniteSets, TLC

VARIABLES
    shops,              \* useState<Shop[]>            (gifts.tsx:804)
    searchQuery,        \* useState('')                (gifts.tsx:817)
    searchResults,      \* useState<SearchResults>     (gifts.tsx:818)
    searchLoading,      \* useState(false)             (gifts.tsx:819)
    searchDebounceRef,  \* useRef: the id of the last timer set, 0 for null
                        \*                             (gifts.tsx:820)
    timers,             \* setTimeout callbacks scheduled and not yet run
    requests,           \* timer callbacks awaiting api.get('/search')
    appliedFor,         \* history: the query whose task last wrote searchResults
    lastTask,           \* history: how the timer callback that ended last
                        \* went: its request resolved or rejected, and
                        \* whether it ran performLocalSearch
    query,              \* performLocalSearch's argument
    results,            \* performLocalSearch's return value
    threw,              \* performLocalSearch ended by a TypeError
    pc,                 \* position of the call under test
    str1, str2,         \* levenshteinDistance's arguments
    distance,           \* levenshteinDistance's return value
    items,              \* cart store: items          (cartStore.ts:30)
    shopId,             \* cart store: shopId, <<>> for null     (:31)
    shopName,           \* cart store: shopName, <<>> for null   (:32)
    now,                \* Date.now() at the last addItem        (:56)
    notifications,      \* notification store         (notificationStore.ts:30)
    unreadCount,        \*                                       (:31)
    notificationsLoading, \* its loading flag                    (:32)
    fetching,           \* fetchNotifications calls awaiting api.get (:37)
    user,               \* auth store: user, <<>> for null (authStore.ts:21)
    session,            \* auth store: session, <<>> for null    (:22)
    isLoading,          \*                                       (:23)
    isInitialized,      \*                                       (:24)
    error,              \* auth store: error, <<>> for null      (:25)
    authToken,          \* the argument of the last setAuthToken call,
                        \* <<>> for null or no call
    listeners,          \* callbacks registered by onAuthStateChange (:38)
    authCalls,          \* per function of the auth store, the number of
                        \* its calls awaiting supabase
    completed,          \* history: the auth call that returned last
    loading,            \* checkout: useState(false)  (checkout.tsx:41)
    processingPayment,  \*                                       (:42)
    selectedPaymentType, \*                                      (:48)
    selectedSavedMethodId, \* <<>> for null                       (:49)
    orderStep,          \* position of handlePlaceOrder          (:110)
    createdOrderId,     \* its local, <<>> for null              (:152)
    orderConfirmed,     \* its local                             (:153)
    charged,            \* history: a charge for the order succeeded
    cancelSent          \* history: PATCH status=cancelled was sent

vars == <<shops, searchQuery, searchResults, searchLoading, searchDebounceRef,
          timers, requests, appliedFor, lastTask, query, results, threw, pc,
          str1, str2, distance, items, shopId, shopName, now,
          notifications, unreadCount, notificationsLoading, fetching,
          user, session, isLoading, isInitialized, error, authToken,
          listeners, authCalls, completed,
          loading, processingPayment, selectedPaymentType,
          selectedSavedMethodId, orderStep, createdOrderId, orderConfirmed, charged, cancelSent>>

uiVars   == <<searchQuery, searchResults, searchLoading, searchDebounceRef,
              timers, requests, appliedFor, lastTask>>
callVars == <<query, results, threw, pc>>
levVars  == <<str1, str2, distance>>
cartVars == <<items, shopId, shopName, now>>

notificationVars == <<notifications, unreadCount, notificationsLoading, fetching>>
authVars == <<user, session, isLoading, isInitialized, error, authToken,
              listeners, authCalls, completed>>
checkoutVars == <<loading, processingPayment, selectedPaymentType,
                  selectedSavedMethodId, orderStep, createdOrderId, orderConfirmed, charged, cancelSent>>

\* The stores of the client (frontend/src/stores) and the checkout screen.
storeVars  == <<cartVars, notificationVars, authVars, checkoutVars>>
searchVars == <<shops, uiVars, callVars, levVars>>

---------------------------------------------------------------------------
(* Bounds of the checked input sets.                                       *)

MaxNameLen == 3
MaxQueryLen == 2
MaxFuzzyLen == 5
MaxLevLen == 3
MaxListLen == 11
MaxRequests == 2
MaxTimers == 2

---------------------------------------------------------------------------
(* JavaScript values and String.prototype methods.                         *)

NULL == <<"null">>

Space == " "
Tab == "\t"

IsWhitespace(c) == c \in {Space, Tab}

Min2(a, b) == IF a < b THEN a ELSE b

Max2(a, b) == IF a > b THEN a ELSE b

RECURSIVE StringsOfLen(_, _)
StringsOfLen(chars, n) ==
    IF n = 0 THEN {<<>>}
    ELSE {Append(s, c) : s \in StringsOfLen(chars, n - 1), c \in chars}

StringsUpTo(chars, n) == UNION {StringsOfLen(chars, k) : k \in 0..n}

UpperCase ==
    <<"A","B","C","D","E","F","G","H","I","J","K","L","M",
      "N","O","P","Q","R","S","T","U","V","W","X","Y","Z">>

LowerCase ==
    <<"a","b","c","d","e","f","g","h","i","j","k","l","m",
      "n","o","p","q","r","s","t","u","v","w","x","y","z">>

LowerChar(c) ==
    IF \E i \in 1..Len(UpperCase) : UpperCase[i] = c
    THEN LowerCase[CHOOSE i \in 1..Len(UpperCase) : UpperCase[i] = c]
    ELSE c

toLowerCase(s) == [i \in 1..Len(s) |-> LowerChar(s[i])]

RECURSIVE trimStart(_)
trimStart(s) ==
    IF s # <<>> /\ IsWhitespace(Head(s)) THEN trimStart(Tail(s)) ELSE s

RECURSIVE trimEnd(_)
trimEnd(s) ==
    IF s # <<>> /\ IsWhitespace(s[Len(s)])
    THEN trimEnd(SubSeq(s, 1, Len(s) - 1))
    ELSE s

\* trim stripping the leading whitespace only.
trimLeadingOnly(s) == trimStart(s)

trim(s) == trimEnd(trimStart(s))

startsWith(s, t) == Len(t) <= Len(s) /\ SubSeq(s, 1, Len(t)) = t

includes(s, t) ==
    \E i \in 0..(Len(s) - Len(t)) : SubSeq(s, i + 1, i + Len(t)) = t

\* s.split(sep) for a one-character separator: "".split(' ') is [""].
RECURSIVE splitFrom(_, _, _)
splitFrom(s, sep, word) ==
    IF s = <<>> THEN <<word>>
    ELSE IF Head(s) = sep THEN <<word>> \o splitFrom(Tail(s), sep, <<>>)
    ELSE splitFrom(Tail(s), sep, Append(word, Head(s)))

split(s, sep) == splitFrom(s, sep, <<>>)

\* (value || ''): null, undefined and '' all give ''.
OrEmpty(v) == IF v = NULL THEN <<>> ELSE v

\* slice cutting one element late.
sliceOneMore(seq, n) == SubSeq(seq, 1, Min2(n + 1, Len(seq)))

slice(seq, n) == SubSeq(seq, 1, Min2(n, Len(seq)))

---------------------------------------------------------------------------
(* levenshteinDistance: the table is filled row by row (i over str2),      *)
(* each row left to right (j over str1); row[j + 1] is matrix[i][j].       *)

FirstRow(s1) == [j \in 1..(Len(s1) + 1) |-> j - 1]

\* FillRow without the deletion case matrix[i - 1][j] + 1.
RECURSIVE FillRowNoDeletion(_, _, _, _, _, _)
FillRowNoDeletion(prev, row, s1, s2, i, j) ==
    IF j > Len(s1) THEN row
    ELSE LET cell == IF s2[i] = s1[j]
                     THEN prev[j]
                     ELSE Min2(prev[j] + 1, row[j] + 1)
         IN  FillRowNoDeletion(prev, Append(row, cell), s1, s2, i, j + 1)

RECURSIVE FillRow(_, _, _, _, _, _)
FillRow(prev, row, s1, s2, i, j) ==
    IF j > Len(s1) THEN row
    ELSE LET cell == IF s2[i] = s1[j]
                     THEN prev[j]
                     ELSE Min2(Min2(prev[j] + 1, row[j] + 1), prev[j + 1] + 1)
         IN  FillRow(prev, Append(row, cell), s1, s2, i, j + 1)

RECURSIVE FillMatrix(_, _, _, _)
FillMatrix(prev, s1, s2, i) ==
    \* Len(prev) is read at each row, so that a row is complete before the
    \* next one is started, as in the loop.
    IF i > Len(s2) \/ Len(prev) # Len(s1) + 1 THEN prev
    ELSE FillMatrix(FillRow(prev, <<i>>, s1, s2, i, 1), s1, s2, i + 1)

levenshteinDistance(s1, s2) == FillMatrix(FirstRow(s1), s1, s2, 1)[Len(s1) + 1]

---------------------------------------------------------------------------
(* calculateSimilarity returns a double; it is kept as the exact fraction  *)
(* num / den.  For the lengths checked here the double comparison          *)
(* similarity > 0.6 and Math.round(similarity * 30) agree with the exact   *)
(* ones: 3/5, 6/10, ... divide to the very double the literal 0.6 denotes. *)

\* The similarity to the first word of b instead of b.
calculateSimilarityFirstWord(a, b) ==
    LET w       == split(b, Space)[1]
        longer  == IF Len(a) > Len(w) THEN a ELSE w
        shorter == IF Len(a) > Len(w) THEN w ELSE a
    IN  IF Len(longer) = 0 THEN [num |-> 1, den |-> 1]
        ELSE [num |-> Len(longer) - levenshteinDistance(longer, shorter),
              den |-> Len(longer)]

calculateSimilarity(a, b) ==
    LET longer  == IF Len(a) > Len(b) THEN a ELSE b
        shorter == IF Len(a) > Len(b) THEN b ELSE a
    IN  IF Len(longer) = 0 THEN [num |-> 1, den |-> 1]
        ELSE [num |-> Len(longer) - levenshteinDistance(longer, shorter),
              den |-> Len(longer)]

\* The threshold test with >= for >.
AtOrAboveThreshold(sim) == sim.num * 10 >= 6 * sim.den

\* similarity > 0.6
AboveThreshold(sim) == sim.num * 10 > 6 * sim.den

\* Math.round(similarity * 30): halves round up.
RoundTimes30(sim) == (2 * 30 * sim.num + sim.den) \div (2 * sim.den)

---------------------------------------------------------------------------
(* performLocalSearch.                                                     *)

EmptyResults == [shops |-> <<>>, menu_items |-> <<>>, suggestions |-> <<>>]

ResultLimit == 10
SuggestionLimit == 5

popularSearches ==
    << <<"L","a","t","t","e">>,
       <<"E","s","p","r","e","s","s","o">>,
       <<"C","o","l","d"," ","B","r","e","w">>,
       <<"M","a","t","c","h","a">>,
       <<"C","a","p","p","u","c","c","i","n","o">>,
       <<"A","m","e","r","i","c","a","n","o">>,
       <<"M","o","c","h","a">>,
       <<"C","r","o","i","s","s","a","n","t">>,
       <<"O","a","t"," ","M","i","l","k">>,
       <<"I","c","e","d"," ","C","o","f","f","e","e">> >>

\* NameScore with the rules accumulating instead of excluding each other.
NameScoreCumulative(name, q) ==
    (IF name = q THEN 100 ELSE 0)
    + (IF startsWith(name, q) THEN 80 ELSE 0)
    + (IF \E i \in 1..Len(split(name, Space)) :
             startsWith(split(name, Space)[i], q) THEN 60 ELSE 0)
    + (IF includes(name, q) THEN 40 ELSE 0)

\* The chain without its starts-with branch.
NameScoreNoPrefix(name, q) ==
    IF name = q THEN 100
    ELSE IF LET words == split(name, Space)
            IN  \E i \in 1..Len(words) : startsWith(words[i], q) THEN 60
    ELSE IF includes(name, q) THEN 40
    ELSE 0

\* The chain without its word branch.
NameScoreNoWordRule(name, q) ==
    IF name = q THEN 100
    ELSE IF startsWith(name, q) THEN 80
    ELSE IF includes(name, q) THEN 40
    ELSE 0

\* The if / else-if chain on the name (score after line 989).
NameScore(name, q) ==
    IF name = q THEN 100
    ELSE IF startsWith(name, q) THEN 80
    ELSE IF LET words == split(name, Space)
            IN  \E i \in 1..Len(words) : startsWith(words[i], q) THEN 60
    ELSE IF includes(name, q) THEN 40
    ELSE 0

DescScore(desc, q) == IF includes(desc, q) THEN 20 ELSE 0

AddrScore(addr, q) == IF includes(addr, q) THEN 10 ELSE 0

\* FuzzyScore without the score === 0 guard.
FuzzyScoreUnguarded(score, q, name) ==
    IF AboveThreshold(calculateSimilarity(q, name))
    THEN RoundTimes30(calculateSimilarity(q, name))
    ELSE 0

FuzzyScore(score, q, name) ==
    IF score = 0
    THEN LET similarity == calculateSimilarity(q, name)
         IN  IF AboveThreshold(similarity) THEN RoundTimes30(similarity) ELSE 0
    ELSE 0

\* ShopScore with the two bonuses as further else-if branches of the name
\* chain: they are lost when a name rule fired.
ShopScoreChained(shop, q) ==
    LET name  == toLowerCase(shop.name)
        desc  == toLowerCase(OrEmpty(shop.description))
        addr  == toLowerCase(OrEmpty(shop.address))
        score == IF NameScore(name, q) > 0 THEN NameScore(name, q)
                 ELSE IF DescScore(desc, q) > 0 THEN DescScore(desc, q)
                 ELSE AddrScore(addr, q)
    IN  score + FuzzyScore(score, q, name)

\* The map callback: the score of one shop for the normalized query q.
ShopScore(shop, q) ==
    LET name  == toLowerCase(shop.name)
        desc  == toLowerCase(OrEmpty(shop.description))
        addr  == toLowerCase(OrEmpty(shop.address))
        score == NameScore(name, q) + DescScore(desc, q) + AddrScore(addr, q)
    IN  score + FuzzyScore(score, q, name)

\* Array.prototype.sort with (a, b) => b._score - a._score: a stable sort
\* (ECMAScript 2019), so an element goes behind every element that does not
\* compare after it.
\* InsertByScore putting an element before its equals: an unstable sort.
RECURSIVE InsertBeforeEquals(_, _)
InsertBeforeEquals(sorted, s) ==
    IF sorted = <<>> THEN <<s>>
    ELSE IF s._score - Head(sorted)._score >= 0 THEN <<s>> \o sorted
    ELSE <<Head(sorted)>> \o InsertBeforeEquals(Tail(sorted), s)

RECURSIVE InsertByScore(_, _)
InsertByScore(sorted, s) ==
    IF sorted = <<>> THEN <<s>>
    ELSE IF s._score - Head(sorted)._score > 0 THEN <<s>> \o sorted
    ELSE <<Head(sorted)>> \o InsertByScore(Tail(sorted), s)

\* The list left in its input order.
sortByScoreSkipped(seq) == seq

RECURSIVE sortByScore(_)
sortByScore(seq) ==
    IF seq = <<>> THEN <<>>
    ELSE InsertByScore(sortByScore(SubSeq(seq, 1, Len(seq) - 1)), seq[Len(seq)])

\* shop.name.toLowerCase() is a TypeError when name is null or undefined.
Throws(shopList) == \E i \in 1..Len(shopList) : shopList[i].name = NULL

scoredShops(rawQuery, shopList) ==
    LET q == trim(toLowerCase(rawQuery))
    IN  [i \in 1..Len(shopList) |->
            [id          |-> shopList[i].id,
             name        |-> shopList[i].name,
             description |-> shopList[i].description,
             address     |-> shopList[i].address,
             _score      |-> ShopScore(shopList[i], q)]]

\* performLocalSearch matching the popular searches without lower-casing them.
performLocalSearchCaseSensitive(rawQuery, shopList) ==
    LET q == trim(toLowerCase(rawQuery))
        Positive(s) == s._score > 0
        Suggested(p) == includes(p, q)
    IN  [shops       |-> slice(sortByScore(SelectSeq(scoredShops(rawQuery, shopList),
                                                     Positive)), ResultLimit),
         menu_items  |-> <<>>,
         suggestions |-> slice(SelectSeq(popularSearches, Suggested), SuggestionLimit)]

\* performLocalSearch returning the head of the popular searches unfiltered.
performLocalSearchUnfiltered(rawQuery, shopList) ==
    LET Positive(s) == s._score > 0
    IN  [shops       |-> slice(sortByScore(SelectSeq(scoredShops(rawQuery, shopList),
                                                     Positive)), ResultLimit),
         menu_items  |-> <<>>,
         suggestions |-> slice(popularSearches, SuggestionLimit)]

performLocalSearch(rawQuery, shopList) ==
    LET q == trim(toLowerCase(rawQuery))
        Positive(s) == s._score > 0
        Suggested(p) == includes(toLowerCase(p), q)
    IN  [shops       |-> slice(sortByScore(SelectSeq(scoredShops(rawQuery, shopList),
                                                     Positive)), ResultLimit),
         menu_items  |-> <<>>,
         suggestions |-> slice(SelectSeq(popularSearches, Suggested), SuggestionLimit)]

---------------------------------------------------------------------------
(* One call of performLocalSearch on a one-shop list.  The query is a      *)
(* non-empty string, as handleSearch passes it (line 948); a shop record   *)
(* is what api.get('/shops') delivered, so any field may be null.          *)

RankChars == {"a", "B", Space, Tab}

RankNames == StringsUpTo(RankChars, MaxNameLen) \cup {NULL}

RankQueries == StringsUpTo(RankChars, MaxQueryLen) \ {<<>>}

RankDescriptions == {NULL, <<"A", "a">>}

RankAddresses == {NULL, <<"a", "B">>}

RankShops ==
    {[id |-> 1, name |-> n, description |-> d, address |-> a] :
        n \in RankNames, d \in RankDescriptions, a \in RankAddresses}

\* The stores as created: an empty cart.
CartIdle ==
    /\ items = <<>>
    /\ shopId = <<>>
    /\ shopName = <<>>
    /\ now = 0

\* No notification, no fetch under way.
NotificationIdle ==
    /\ notifications = <<>>
    /\ unreadCount = 0
    /\ notificationsLoading = FALSE
    /\ fetching = 0

\* The asynchronous functions of the auth store.
AuthOps == {"initialize", "signIn", "signUp", "signOut", "resetPassword"}

\* Signed out, initialize not yet called.
AuthIdle ==
    /\ user = <<>>
    /\ session = <<>>
    /\ isLoading = FALSE
    /\ isInitialized = FALSE
    /\ error = <<>>
    /\ authToken = <<>>
    /\ listeners = 0
    /\ authCalls = [op \in AuthOps |-> 0]
    /\ completed = <<>>

\* The checkout screen as mounted, handlePlaceOrder not running.
CheckoutIdle ==
    /\ loading = FALSE
    /\ processingPayment = FALSE
    /\ selectedPaymentType = "new"
    /\ selectedSavedMethodId = <<>>
    /\ orderStep = "idle"
    /\ createdOrderId = <<>>
    /\ orderConfirmed = FALSE
    /\ charged = FALSE
    /\ cancelSent = FALSE

StoreIdle == CartIdle /\ NotificationIdle /\ AuthIdle /\ CheckoutIdle

UiIdle ==
    /\ searchQuery = <<>>
    /\ searchResults = EmptyResults
    /\ searchLoading = FALSE
    /\ searchDebounceRef = 0
    /\ timers = <<>>
    /\ requests = <<>>
    /\ appliedFor = <<>>
    /\ lastTask = <<>>

LevIdle ==
    /\ str1 = <<>>
    /\ str2 = <<>>
    /\ distance = 0

CallInit ==
    /\ results = EmptyResults
    /\ threw = FALSE
    /\ pc = "call"

RankInit ==
    /\ shops \in {<<s>> : s \in RankShops}
    /\ query \in RankQueries
    /\ CallInit
    /\ UiIdle
    /\ StoreIdle
    /\ LevIdle

\* results = performLocalSearch(query), or the TypeError it ends by.
\* A call that sorts the caller's shop list in place.
CallPerformLocalSearchInPlace ==
    /\ pc = "call"
    /\ pc' = "done"
    /\ IF Throws(shops)
       THEN threw' = TRUE /\ results' = results /\ shops' = shops
       ELSE /\ threw' = FALSE
            /\ results' = performLocalSearch(query, shops)
            /\ shops' = LET S == sortByScore(scoredShops(query, shops))
                        IN  [k \in 1..Len(S) |->
                                [id |-> S[k].id, name |-> S[k].name,
                                 description |-> S[k].description,
                                 address |-> S[k].address]]
    /\ UNCHANGED <<query, uiVars, levVars>>
    /\ UNCHANGED storeVars

CallPerformLocalSearch ==
    /\ pc = "call"
    /\ pc' = "done"
    /\ IF Throws(shops)
       THEN threw' = TRUE /\ results' = results
       ELSE threw' = FALSE /\ results' = performLocalSearch(query, shops)
    /\ UNCHANGED <<shops, query, uiVars, levVars>>
    /\ UNCHANGED storeVars

RankNext == CallPerformLocalSearch

SpecRank == RankInit /\ [][RankNext]_vars

---------------------------------------------------------------------------
(* Vocabulary of the statements below, written from the claims' words.     *)

\* t occurs in s at position i (1-based); the empty string occurs anywhere.
OccursAt(s, t, i) ==
    /\ i + Len(t) - 1 <= Len(s)
    /\ \A k \in 1..Len(t) : s[i + k - 1] = t[k]

Contains(s, t) == \E i \in 1..(Len(s) + 1) : OccursAt(s, t, i)

\* A word of s delimited by whitespace (space or tab) starts with t.
WhitespaceWordStartsWith(s, t) ==
    /\ \A k \in 1..Len(t) : ~IsWhitespace(t[k])
    /\ \E i \in 1..Len(s) :
          (i = 1 \/ IsWhitespace(s[i - 1])) /\ OccursAt(s, t, i)

\* A word of s delimited by the space character alone starts with t.
SpaceWordStartsWith(s, t) ==
    /\ \A k \in 1..Len(t) : t[k] # Space
    /\ \E i \in 1..Len(s) : (i = 1 \/ s[i - 1] = Space) /\ OccursAt(s, t, i)

NameTier(name, q, wordRule) ==
    IF name = q THEN 100
    ELSE IF OccursAt(name, q, 1) THEN 80
    ELSE IF wordRule THEN 60
    ELSE IF Contains(name, q) THEN 40
    ELSE 0

\* A compared field, lower-cased; a missing one counts as the empty string.
FieldText(v) == IF v = NULL THEN <<>> ELSE toLowerCase(v)

Bonus(shop, q) ==
    (IF Contains(FieldText(shop.description), q) THEN 20 ELSE 0)
    + (IF Contains(FieldText(shop.address), q) THEN 10 ELSE 0)

Returned == pc = "done" /\ ~threw

NormalizedQuery == trim(toLowerCase(query))

Candidate == shops[1]

CandidateName == toLowerCase(Candidate.name)

\* The score the call gave the candidate: 0 when it was filtered out.
CandidateScore ==
    IF results.shops = <<>> THEN 0 ELSE results.shops[1]._score

---------------------------------------------------------------------------
(* C1 (as amended): the name contribution is that of the single            *)
(* highest-priority name rule that holds: 100 if the lower-cased name      *)
(* equals the normalized query, else 80 if it starts with it, else 60 if a *)
(* word of the name, the name being split at each space character (U+0020) *)
(* and at no other whitespace, starts with it, else 40 if the name         *)
(* contains it, else 0.                                                    *)
C1_NameRule ==
    Returned =>
        LET tier == NameTier(CandidateName, NormalizedQuery,
                             SpaceWordStartsWith(CandidateName, NormalizedQuery))
        IN  /\ NameScore(CandidateName, NormalizedQuery) = tier
            /\ tier > 0 => CandidateScore = tier + Bonus(Candidate, NormalizedQuery)

\* The word rule decided the score: a word after a space starts with the query.
C1_Witness ==
    /\ Returned
    /\ CandidateScore = 60
    /\ \E i \in 2..Len(CandidateName) :
          CandidateName[i - 1] = Space /\ OccursAt(CandidateName, NormalizedQuery, i)

\* C1 as stated: the word rule is about whitespace-delimited words.
C1_AsStated ==
    Returned =>
        NameScore(CandidateName, NormalizedQuery) =
            NameTier(CandidateName, NormalizedQuery,
                     WhitespaceWordStartsWith(CandidateName, NormalizedQuery))

---------------------------------------------------------------------------
(* C2 (as amended): for a candidate whose name matches none of rules 1-4,  *)
(* the fuzzy fallback is decided by the score after the description and    *)
(* address bonuses: when either bonus applies the total is the bonuses     *)
(* alone and no fuzzy points are added; when neither applies the total is  *)
(* round(similarity * 30) if the similarity exceeds 0.6 and 0 otherwise.   *)
C2_FuzzyOnlyWithoutBonus ==
    (Returned /\ NameScore(CandidateName, NormalizedQuery) = 0) =>
        LET bonus == Bonus(Candidate, NormalizedQuery)
            sim   == calculateSimilarity(NormalizedQuery, CandidateName)
        IN  CandidateScore =
                IF bonus > 0 THEN bonus
                ELSE IF AboveThreshold(sim) THEN RoundTimes30(sim)
                ELSE 0

\* A candidate similar enough to the query whose description also matches.
C2_Witness ==
    /\ Returned
    /\ NameScore(CandidateName, NormalizedQuery) = 0
    /\ AboveThreshold(calculateSimilarity(NormalizedQuery, CandidateName))
    /\ Bonus(Candidate, NormalizedQuery) = 20
    /\ CandidateScore = 20

\* C2 as stated: the bonuses are added on top of the fuzzy score.
C2_AsStated ==
    (/\ Returned
     /\ NameScore(CandidateName, NormalizedQuery) = 0
     /\ AboveThreshold(calculateSimilarity(NormalizedQuery, CandidateName))) =>
        CandidateScore =
            RoundTimes30(calculateSimilarity(NormalizedQuery, CandidateName))
            + Bonus(Candidate, NormalizedQuery)

---------------------------------------------------------------------------
(* C3: for an empty or whitespace-only query the ranker returns the fully  *)
(* empty result set.                                                       *)
C3_BlankQueryEmptyResult ==
    (Returned /\ trim(query) = <<>>) => results = EmptyResults

---------------------------------------------------------------------------
(* C7: for a candidate whose name matches one of rules 1-4 the total score *)
(* is the name contribution plus 20 if the lower-cased description         *)
(* contains the query plus 10 if the lower-cased address contains it.      *)
C7_BonusesAdd ==
    (Returned /\ NameScore(CandidateName, NormalizedQuery) > 0) =>
        /\ results.shops # <<>>
        /\ results.shops[1]._score =
               NameScore(CandidateName, NormalizedQuery)
               + (IF Contains(FieldText(Candidate.description), NormalizedQuery)
                  THEN 20 ELSE 0)
               + (IF Contains(FieldText(Candidate.address), NormalizedQuery)
                  THEN 10 ELSE 0)

\* A substring match on the name with both bonuses.
C7_Witness ==
    /\ Returned
    /\ NameScore(CandidateName, NormalizedQuery) = 40
    /\ CandidateScore = 70

---------------------------------------------------------------------------
(* C10: the ranker raises no error for any input, a candidate whose name   *)
(* is null or undefined included.                                          *)
C10_NeverThrows == pc = "done" => ~threw

---------------------------------------------------------------------------
(* C8 is checked on longer strings over two letters: one call of           *)
(* performLocalSearch on a shop without description and address.           *)

FuzzyChars == {"a", "b"}

FuzzyNames == StringsUpTo(FuzzyChars, MaxFuzzyLen)

FuzzyQueries == StringsUpTo(FuzzyChars, MaxFuzzyLen) \ {<<>>}

FuzzyInit ==
    /\ shops \in {<<[id |-> 1, name |-> n, description |-> NULL, address |-> NULL]>> :
                    n \in FuzzyNames}
    /\ query \in FuzzyQueries
    /\ CallInit
    /\ UiIdle
    /\ StoreIdle
    /\ LevIdle

SpecFuzzy == FuzzyInit /\ [][RankNext]_vars

---------------------------------------------------------------------------
(* C8: when the fuzzy fallback is evaluated, similarity = (L - d) / L with *)
(* L the longer length and d the edit distance; round(similarity * 30) is  *)
(* awarded iff similarity > 0.6 (exactly 0.6 awards nothing), so an        *)
(* awarded fuzzy score lies between 18 and 30.                             *)
C8_FuzzyAward ==
    (/\ Returned
     /\ NameTier(CandidateName, NormalizedQuery,
                 SpaceWordStartsWith(CandidateName, NormalizedQuery)) = 0
     /\ Bonus(Candidate, NormalizedQuery) = 0) =>
        LET L == Max2(Len(NormalizedQuery), Len(CandidateName))
            d == levenshteinDistance(NormalizedQuery, CandidateName)
        IN  /\ CandidateScore > 0 <=> 5 * (L - d) > 3 * L
            /\ CandidateScore > 0 =>
                 \* the integer nearest to 30 (L - d) / L, a half rounding up
                 /\ 2 * L * CandidateScore - L <= 60 * (L - d)
                 /\ 60 * (L - d) < 2 * L * CandidateScore + L
                 /\ CandidateScore \in 18..30

\* A similarity of exactly 0.6 (two edits on five characters): no award.
C8_Witness ==
    /\ Returned
    /\ NameTier(CandidateName, NormalizedQuery,
                SpaceWordStartsWith(CandidateName, NormalizedQuery)) = 0
    /\ Max2(Len(NormalizedQuery), Len(CandidateName)) = 5
    /\ levenshteinDistance(NormalizedQuery, CandidateName) = 2
    /\ CandidateScore = 0

---------------------------------------------------------------------------
(* One call of levenshteinDistance on two strings over two letters.        *)

LevChars == {"a", "b"}

LevStrings == StringsUpTo(LevChars, MaxLevLen)

LevInit ==
    /\ str1 \in LevStrings
    /\ str2 \in LevStrings
    /\ distance = 0
    /\ pc = "call"
    /\ shops = <<>>
    /\ query = <<>>
    /\ results = EmptyResults
    /\ threw = FALSE
    /\ UiIdle
    /\ StoreIdle

CallLevenshteinDistance ==
    /\ pc = "call"
    /\ pc' = "done"
    /\ distance' = levenshteinDistance(str1, str2)
    /\ UNCHANGED <<str1, str2, shops, query, results, threw, uiVars>>
    /\ UNCHANGED storeVars

LevNext == CallLevenshteinDistance

SpecLev == LevInit /\ [][LevNext]_vars

\* The strings one insertion, deletion or substitution away from s.  A
\* shortest edit script never needs a string longer than its longer end,
\* so insertions stay within MaxLevLen.
OneEdit(s) ==
    {SubSeq(s, 1, i - 1) \o SubSeq(s, i + 1, Len(s)) : i \in 1..Len(s)}
    \cup {[s EXCEPT ![i] = c] : i \in 1..Len(s), c \in LevChars}
    \cup (IF Len(s) < MaxLevLen
          THEN {SubSeq(s, 1, i) \o <<c>> \o SubSeq(s, i + 1, Len(s)) :
                   i \in 0..Len(s), c \in LevChars}
          ELSE {})

\* The strings at most k edits away from s.
RECURSIVE WithinEdits(_, _)
WithinEdits(s, k) ==
    IF k = 0 THEN {s}
    ELSE LET near == WithinEdits(s, k - 1)
         IN  near \cup UNION {OneEdit(t) : t \in near}

\* The minimum number of edits that transform a into b.
MinEdits(a, b) ==
    CHOOSE k \in 0..(2 * MaxLevLen) :
        /\ b \in WithinEdits(a, k)
        /\ \A j \in 0..(k - 1) : b \notin WithinEdits(a, j)

---------------------------------------------------------------------------
(* C9: levenshteinDistance(a, b) is the minimum number of single-character *)
(* insertions, deletions and substitutions that transform a into b; it is  *)
(* 0 iff a = b, len(a) when b is empty, and symmetric.                     *)
C9_IsEditDistance ==
    pc = "done" =>
        /\ distance = MinEdits(str1, str2)
        /\ distance = 0 <=> str1 = str2
        /\ str2 = <<>> => distance = Len(str1)
        /\ distance = levenshteinDistance(str2, str1)

\* A pair that needs a deletion and a substitution.
C9_Witness ==
    /\ pc = "done"
    /\ Len(str1) = 3
    /\ Len(str2) = 2
    /\ distance = 2

---------------------------------------------------------------------------
(* C4 and C5 are checked on lists long enough to be cut: one call of       *)
(* performLocalSearch on a list of up to MaxListLen shops, the id of a     *)
(* shop being its position in the list.                                    *)

ListNames == {<<"a">>, <<"B", "a">>}

ListQueries == {<<"a">>, <<"b">>, <<"a", "b">>}

ShopLists ==
    UNION {[1..n -> ListNames] : n \in 0..MaxListLen}

ListInit ==
    /\ \E names \in ShopLists :
          shops = [i \in 1..Len(names) |->
                      [id |-> i, name |-> names[i],
                       description |-> NULL, address |-> NULL]]
    /\ query \in ListQueries
    /\ CallInit
    /\ UiIdle
    /\ StoreIdle
    /\ LevIdle

SpecList == ListInit /\ [][RankNext]_vars

\* Of the scored candidates S, candidate i ranks ahead of candidate j.
RanksAhead(S, i, j) ==
    \/ S[i]._score > S[j]._score
    \/ S[i]._score = S[j]._score /\ i < j

---------------------------------------------------------------------------
(* C4: the returned shops are exactly the first 10, in rank order, of the  *)
(* candidates whose score is greater than 0.                               *)
C4_TopTenPositive ==
    Returned =>
        LET R == results.shops
            S == scoredShops(query, shops)
            positive == {i \in 1..Len(shops) : S[i]._score > 0}
            returned == {R[k].id : k \in 1..Len(R)}
        IN  /\ Len(R) <= 10
            /\ returned \subseteq positive
            /\ \A k \in 1..Len(R) : R[k] = S[R[k].id]
            /\ Cardinality(returned) = Len(R)
            /\ positive = {} => R = <<>>
            /\ \A i \in positive \ returned :
                  /\ Len(R) = 10
                  /\ \A j \in returned : RanksAhead(S, j, i)

\* Eleven candidates score, so one is cut.
C4_Witness ==
    /\ Returned
    /\ Len(SelectSeq(shops, LAMBDA s : ShopScore(s, NormalizedQuery) > 0)) = 11
    /\ Len(results.shops) = 10
    /\ \E k \in 1..9 : results.shops[k]._score > results.shops[k + 1]._score

---------------------------------------------------------------------------
(* C5: the returned shops are in non-increasing order of score, and two    *)
(* returned candidates of equal score keep their input order.              *)
C5_SortedStable ==
    Returned =>
        LET R == results.shops
        IN  \A k, l \in 1..Len(R) :
               k < l =>
                  /\ R[k]._score >= R[l]._score
                  /\ R[k]._score = R[l]._score => R[k].id < R[l].id

\* A tie between returned candidates, behind a higher-scoring later one.
C5_Witness ==
    /\ Returned
    /\ Len(results.shops) >= 3
    /\ results.shops[1].id > results.shops[2].id
    /\ results.shops[2]._score = results.shops[3]._score

---------------------------------------------------------------------------
(* The search screen: handleSearch, the debounce timer and the requests.   *)
(* A timer callback is a closure: it keeps the query it was created for    *)
(* and, through performLocalSearch, the shops of the render that created   *)
(* it.  searchDebounceRef keeps the id of the last timer set, also after   *)
(* that timer has fired or was cleared (clearTimeout then does nothing).   *)

FallbackShops ==
    << [id |-> 1,
        name |-> <<"M","o","o","n","b","e","a","n"," ","C","o","f","f","e","e">>,
        description |->
          <<"A","r","t","i","s","a","n","a","l"," ","c","o","f","f","e","e"," ","r","o","a","s","t","e","d"," ","i","n","-","h","o","u","s","e">>,
        address |-> <<"3","0"," ","S","t"," ","A","n","d","r","e","w","s"," ","S","t">>],
       [id |-> 2,
        name |-> <<"C","h","a","p","t","e","r"," ","C","o","f","f","e","e">>,
        description |->
          <<"S","p","e","c","i","a","l","t","y"," ","c","o","f","f","e","e"," ","a","n","d"," ","b","o","o","k","s">>,
        address |-> <<"4","5","6"," ","Q","u","e","e","n"," ","S","t"," ","W">>],
       [id |-> 3,
        name |-> <<"O","p","a","l"," ","C","o","f","f","e","e">>,
        description |->
          <<"M","o","d","e","r","n"," ","t","h","i","r","d","-","w","a","v","e"," ","c","o","f","f","e","e">>,
        address |-> <<"7","8","9"," ","C","o","l","l","e","g","e"," ","S","t">>] >>

\* What api.get('/shops') may deliver: here a single shop.
ApiShops ==
    << [id |-> 7, name |-> <<"A","b">>, description |-> NULL,
        address |-> <<"a">>] >>

\* The text the user may enter: cleared, one letter, two letters.
UiQueries == {<<>>, <<"a">>, <<"a","b">>}

\* response.data of GET /search: whatever the server found for the query.
ServerResults(q) ==
    {EmptyResults,
     [shops |-> <<>>, menu_items |-> <<>>, suggestions |-> <<q>>]}

Init ==
    /\ shops = <<>>
    /\ UiIdle
    /\ StoreIdle
    /\ query = <<>>
    /\ results = EmptyResults
    /\ threw = FALSE
    /\ pc = "ui"
    /\ LevIdle

\* fetchShops settles: the response, or the built-in list when it failed.
FetchShops ==
    /\ shops' \in {ApiShops, FallbackShops}
    /\ UNCHANGED <<uiVars, callVars, levVars>>
    /\ UNCHANGED storeVars

Without(seq, i) == SubSeq(seq, 1, i - 1) \o SubSeq(seq, i + 1, Len(seq))

\* clearTimeout(id): the timer of that id, if it is still pending, is dropped.
clearTimeout(pending, id) ==
    SelectSeq(pending, LAMBDA t : t.id # id)

\* The id setTimeout returns: ids are never reused while something still
\* refers to them, so the least id that is neither pending nor held by the ref.
NewTimerId(pending, ref) ==
    CHOOSE id \in 1..(MaxTimers + 2) :
        /\ id # ref
        /\ \A k \in 1..Len(pending) : pending[k].id # id
        /\ \A j \in 1..(id - 1) :
              j = ref \/ \E k \in 1..Len(pending) : pending[k].id = j

\* handleSearch without the clearTimeout of the previous timer.
HandleSearchNoClear(q) ==
    /\ searchQuery' = q
    /\ IF Len(q) = 0
       THEN /\ searchResults' = EmptyResults
            /\ appliedFor' = q
            /\ UNCHANGED <<timers, searchDebounceRef>>
       ELSE /\ Len(timers) < MaxTimers
            /\ searchDebounceRef' = NewTimerId(timers, searchDebounceRef)
            /\ timers' = Append(timers, [id |-> searchDebounceRef',
                                         query |-> q, shops |-> shops])
            /\ UNCHANGED <<searchResults, appliedFor>>
    /\ UNCHANGED <<shops, searchLoading, requests, lastTask, callVars, levVars>>
    /\ UNCHANGED storeVars

\* handleSearch(q) up to and including the setTimeout call.
HandleSearch(q) ==
    LET pending == IF searchDebounceRef # 0
                   THEN clearTimeout(timers, searchDebounceRef)
                   ELSE timers
    IN  /\ searchQuery' = q
        /\ IF Len(q) = 0
           THEN /\ searchResults' = EmptyResults
                /\ appliedFor' = q
                /\ timers' = pending
                /\ UNCHANGED searchDebounceRef
           ELSE /\ Len(pending) < MaxTimers
                /\ searchDebounceRef' = NewTimerId(pending, searchDebounceRef)
                /\ timers' = Append(pending, [id |-> searchDebounceRef',
                                              query |-> q, shops |-> shops])
                /\ UNCHANGED <<searchResults, appliedFor>>
        /\ UNCHANGED <<shops, searchLoading, requests, lastTask, callVars, levVars>>
        /\ UNCHANGED storeVars

\* 300 ms passed since timer k was set and it was not cleared: its callback
\* starts and awaits api.get('/search', {q: query, limit: 10}).
TimerFires(k) ==
    /\ k \in 1..Len(timers)
    /\ Len(requests) < MaxRequests
    /\ searchLoading' = TRUE
    /\ requests' = Append(requests, [query |-> timers[k].query,
                                      shops |-> timers[k].shops])
    /\ timers' = Without(timers, k)
    /\ UNCHANGED <<shops, searchQuery, searchResults, searchDebounceRef,
                   appliedFor, lastTask, callVars, levVars>>
    /\ UNCHANGED storeVars

\* RequestSucceeds running the local ranker as well, after the response.
RequestSucceedsThenRanks(i) ==
    /\ i \in 1..Len(requests)
    /\ searchResults' = performLocalSearch(requests[i].query, requests[i].shops)
    /\ appliedFor' = requests[i].query
    /\ lastTask' = <<[outcome |-> "resolved", ranked |-> TRUE]>>
    /\ searchLoading' = FALSE
    /\ requests' = Without(requests, i)
    /\ UNCHANGED <<shops, searchQuery, searchDebounceRef, timers, callVars, levVars>>
    /\ UNCHANGED storeVars

\* The request of callback i resolves: try block, then finally.
RequestSucceeds(i) ==
    /\ i \in 1..Len(requests)
    /\ searchResults' \in ServerResults(requests[i].query)
    /\ appliedFor' = requests[i].query
    /\ lastTask' = <<[outcome |-> "resolved", ranked |-> FALSE]>>
    /\ searchLoading' = FALSE
    /\ requests' = Without(requests, i)
    /\ UNCHANGED <<shops, searchQuery, searchDebounceRef, timers, callVars, levVars>>
    /\ UNCHANGED storeVars

\* The request of callback i rejects: the catch block ranks locally, then
\* finally.  A TypeError of the ranker leaves the catch block with nothing
\* applied.
RequestFails(i) ==
    /\ i \in 1..Len(requests)
    /\ IF Throws(requests[i].shops)
       THEN UNCHANGED <<searchResults, appliedFor>>
       ELSE /\ searchResults' =
                  performLocalSearch(requests[i].query, requests[i].shops)
            /\ appliedFor' = requests[i].query
    /\ lastTask' = <<[outcome |-> "rejected", ranked |-> TRUE]>>
    /\ searchLoading' = FALSE
    /\ requests' = Without(requests, i)
    /\ UNCHANGED <<shops, searchQuery, searchDebounceRef, timers, callVars, levVars>>
    /\ UNCHANGED storeVars

Next ==
    \/ FetchShops
    \/ \E q \in UiQueries : HandleSearch(q)
    \/ \E k \in 1..MaxTimers : TimerFires(k)
    \/ \E i \in 1..MaxRequests : RequestSucceeds(i)
    \/ \E i \in 1..MaxRequests : RequestFails(i)

Spec == Init /\ [][Next]_vars

---------------------------------------------------------------------------
(* C6: only the result of the most recent search task is applied: once all *)
(* outstanding activity has settled, searchResults is the result for the   *)
(* last query entered.                                                     *)
C6_SettledResultIsLatest ==
    (timers = <<>> /\ requests = <<>>) => appliedFor = searchQuery

---------------------------------------------------------------------------
(* C11 is checked on inputs that hold both cases of a letter: one call of  *)
(* performLocalSearch on one shop.                                         *)

CaseChars == {"a", "A", "b", Space}

CaseNames == StringsUpTo(CaseChars, MaxQueryLen)

CaseQueries == StringsUpTo(CaseChars, MaxQueryLen) \ {<<>>}

CaseDescriptions == {NULL, <<Space, "A">>}

CaseAddresses == {NULL, <<"b", Space>>}

CaseInit ==
    /\ shops \in {<<[id |-> 1, name |-> n, description |-> d, address |-> a]>> :
                    n \in CaseNames, d \in CaseDescriptions, a \in CaseAddresses}
    /\ query \in CaseQueries
    /\ CallInit
    /\ UiIdle
    /\ StoreIdle
    /\ LevIdle

SpecCase == CaseInit /\ [][RankNext]_vars

\* The same letter in the other case.
OtherCase(c) ==
    CASE c = "a" -> "A"
      [] c = "A" -> "a"
      [] c = "b" -> "B"
      [] c = "B" -> "b"
      [] OTHER -> c

\* The copies of s that differ from it in the case of one letter.
Recased(s) == {[s EXCEPT ![i] = OtherCase(s[i])] : i \in 1..Len(s)}

\* The copies of s with one more, or one less, whitespace character at an end.
Padded(s) ==
    {<<w>> \o s : w \in {Space, Tab}}
    \cup {Append(s, w) : w \in {Space, Tab}}
    \cup (IF s # <<>> /\ IsWhitespace(Head(s)) THEN {Tail(s)} ELSE {})
    \cup (IF s # <<>> /\ IsWhitespace(s[Len(s)])
          THEN {SubSeq(s, 1, Len(s) - 1)} ELSE {})

\* The copies of a field: a missing field has none.
FieldCopies(v, copies) == IF v = NULL THEN {} ELSE copies

\* The score the ranker gives shop for the raw query rawQuery.
ScoreFor(rawQuery, shop) == scoredShops(rawQuery, <<shop>>)[1]._score

---------------------------------------------------------------------------
TaskEnds == Len(requests') = Len(requests) - 1

\* C12: a callback ran the local ranker if and only if its request failed;
\* when a callback ends after a successful request the result it applies is
\* the server's response to its query, and after a failed request it is the
\* local ranking of its query over the shop list it holds.
C12_LocalOnlyOnFailure ==
    /\ [](\A k \in 1..Len(lastTask) :
             lastTask[k].ranked <=> (lastTask[k].outcome = "rejected"))
    /\ [][TaskEnds =>
             \E i \in 1..Len(requests) :
                 /\ requests' = Without(requests, i)
                 /\ lastTask'[1].outcome = "resolved" =>
                       searchResults' \in ServerResults(requests[i].query)
                 /\ lastTask'[1].outcome = "rejected" =>
                       searchResults' = performLocalSearch(requests[i].query,
                                                           requests[i].shops)]_vars

C12_Witness ==
    /\ lastTask # <<>>
    /\ lastTask[1].outcome = "rejected"
    /\ lastTask[1].ranked
    /\ searchResults.shops # <<>>
    /\ appliedFor = searchQuery

(***************************************************************************)
(* C13: the 300 ms debounce.  Every keystroke clears the timer set by the  *)
(* keystroke before it, so at most one callback is pending and it holds    *)
(* the text typed last.                                                    *)
(***************************************************************************)

AtMostLatestPending ==
    /\ Len(timers) <= 1
    /\ \A k \in 1..Len(timers) :
          /\ timers[k].query = searchQuery
          /\ timers[k].id = searchDebounceRef

IssuesRequest == Len(requests') = Len(requests) + 1

MatchingPopular(q) ==
    {i \in 1..Len(popularSearches) : Contains(toLowerCase(popularSearches[i]), q)}

\* The k-th least element of a set of numbers.
KthOf(M, k) == CHOOSE i \in M : Cardinality({j \in M : j < i}) = k - 1

\* C14: suggestions is, in the order of the popular-search list, the first
\* five at most of its entries whose lower-cased text contains the
\* lower-cased, trimmed query; the candidate list plays no part in it.
C14_Suggestions ==
    Returned =>
        LET M == MatchingPopular(NormalizedQuery)
            n == Min2(5, Cardinality(M))
        IN  /\ Len(results.suggestions) = n
            /\ Len(results.suggestions) <= 5
            /\ \A k \in 1..n :
                  results.suggestions[k] = popularSearches[KthOf(M, k)]

\* More than five entries match, entries that do not match lie between
\* them, and the query needed trimming or lower-casing.
C14_Witness ==
    /\ Returned
    /\ Cardinality(MatchingPopular(NormalizedQuery)) > 5
    /\ Len(results.suggestions) = 5
    /\ results.suggestions[5] # popularSearches[5]
    /\ query # NormalizedQuery

(***************************************************************************)
(* Two-shop lists: the two records share description and address and       *)
(* differ in their names; the ranker is called once, then once more with   *)
(* the same arguments.                                                     *)
(***************************************************************************)

PairNames ==
    {<<"a">>, <<"A">>, <<"a", "b">>, <<"b", Space, "a">>, <<"b", "a">>, <<"b">>}

PairQueries == {<<"a">>, <<"A", Space>>, <<"b">>}

PairDescriptions == {NULL, <<"a">>}

PairAddresses == {NULL, <<"b">>}

PairInit ==
    /\ \E n1 \in PairNames, n2 \in PairNames,
          d \in PairDescriptions, a \in PairAddresses :
          shops = <<[id |-> 1, name |-> n1, description |-> d, address |-> a],
                    [id |-> 2, name |-> n2, description |-> d, address |-> a]>>
    /\ query \in PairQueries
    /\ CallInit
    /\ UiIdle
    /\ StoreIdle
    /\ LevIdle

\* performLocalSearch(query) called a second time with the same arguments.
CallPerformLocalSearchAgain ==
    /\ pc = "done"
    /\ ~threw
    /\ pc' = "again"
    /\ results' = performLocalSearch(query, shops)
    /\ UNCHANGED <<shops, query, threw, uiVars, levVars>>
    /\ UNCHANGED storeVars

PairNext ==
    \/ CallPerformLocalSearch
    \/ CallPerformLocalSearchAgain

SpecPair == PairInit /\ [][PairNext]_vars

\* The name rule under which shop i of the list matches the query.
TierOf(i) ==
    NameTier(toLowerCase(shops[i].name), NormalizedQuery,
             SpaceWordStartsWith(toLowerCase(shops[i].name), NormalizedQuery))

\* The place of the record with this id in the returned list, 0 if absent.
PlaceOf(id) ==
    IF \E k \in 1..Len(results.shops) : results.shops[k].id = id
    THEN CHOOSE k \in 1..Len(results.shops) : results.shops[k].id = id
    ELSE 0

\* C15: of two candidates with the same description and address whose names
\* match the query under different name rules, the one matching under the
\* higher rule (exact over prefix over word start over substring) is
\* returned before the other, whichever comes first in the input list.
C15_TierOrder ==
    Returned =>
        \A i \in 1..Len(shops), j \in 1..Len(shops) :
            ( /\ shops[i].description = shops[j].description
              /\ shops[i].address = shops[j].address
              /\ TierOf(i) > TierOf(j)
              /\ TierOf(j) > 0 )
            => /\ PlaceOf(shops[i].id) > 0
               /\ PlaceOf(shops[j].id) > 0
               /\ PlaceOf(shops[i].id) < PlaceOf(shops[j].id)

\* A word-start match listed after a substring match is returned before it.
C15_Witness ==
    /\ Returned
    /\ TierOf(1) = 40
    /\ TierOf(2) = 60
    /\ Len(results.shops) = 2
    /\ results.shops[1].id = 2
    /\ results.shops[2].id = 1

(***************************************************************************)
(* C16: the ranker is a function of its arguments and changes nothing.     *)
(***************************************************************************)

IsPopularSearch(p) == \E i \in 1..Len(popularSearches) : popularSearches[i] = p

\* C17: every local ranking has menu_items = []; over an empty shop list it
\* has shops = [] as well, and each of its suggestions is an entry of the
\* popular-search list that contains the query.
C17_EmptyList ==
    Returned =>
        /\ results.menu_items = <<>>
        /\ shops = <<>> =>
              /\ results.shops = <<>>
              /\ \A k \in 1..Len(results.suggestions) :
                    /\ IsPopularSearch(results.suggestions[k])
                    /\ Contains(toLowerCase(results.suggestions[k]),
                                NormalizedQuery)

\* An empty list with suggestions, the first popular search not among them.
C17_Witness ==
    /\ Returned
    /\ shops = <<>>
    /\ query # <<>>
    /\ results.shops = <<>>
    /\ results.suggestions # <<>>
    /\ results.suggestions[1] # popularSearches[1]

(***************************************************************************)
(* The ranker on the shops of the fallback list, in any order and any      *)
(* selection, with their descriptions and addresses or without, under the  *)
(* queries a user types for them.                                          *)
(***************************************************************************)

ScenarioQueries ==
    {<<"m","o","o","n">>,
     <<"M","O","O","N"," ">>,
     <<"c","o","f","f","e","e">>,
     <<" ","C","o","f","f","e","e">>,
     <<"m","o","o","n","b","e","o","n">>,
     <<"M","o","o","n","b","e","o","n">>,
     <<"x","y","z","1","2","3","n","o","t","f","o","u","n","d">>}

\* The record with description and address missing.
NameOnly(shop) ==
    [id |-> shop.id, name |-> shop.name, description |-> NULL, address |-> NULL]

\* The lists made of different records of a list, in any order.
Arrangements(list) ==
    {l \in UNION {[1..n -> 1..Len(list)] : n \in 0..Len(list)} :
        \A i \in 1..Len(l), j \in 1..Len(l) : i # j => l[i] # l[j]}

ScenarioLists ==
    {[k \in 1..Len(l) |-> FallbackShops[l[k]]] : l \in Arrangements(FallbackShops)}
    \cup
    {[k \in 1..Len(l) |-> NameOnly(FallbackShops[l[k]])] :
        l \in Arrangements(FallbackShops)}

ScenarioInit ==
    /\ shops \in ScenarioLists
    /\ query \in ScenarioQueries
    /\ CallInit
    /\ UiIdle
    /\ StoreIdle
    /\ LevIdle

SpecScenario == ScenarioInit /\ [][RankNext]_vars

Moon == <<"m","o","o","n">>
Coffee == <<"c","o","f","f","e","e">>
Moonbeon == <<"m","o","o","n","b","e","o","n">>
MoonbeanCoffee == <<"m","o","o","n","b","e","a","n"," ","c","o","f","f","e","e">>

\* The lower-cased name of shop i of the list.
NameOf(i) == toLowerCase(shops[i].name)

\* What the name contributed to the score of shop i, 0 if it is not returned.
NameContribution(i) ==
    IF PlaceOf(shops[i].id) = 0 THEN 0
    ELSE results.shops[PlaceOf(shops[i].id)]._score
         - Bonus(shops[i], NormalizedQuery)

AllThreeListed == Len(shops) = 3

\* The query 'moon' returns Moonbean Coffee alone.
MoonbeanAlone ==
    /\ Len(results.shops) = 1
    /\ toLowerCase(results.shops[1].name) = MoonbeanCoffee

(***************************************************************************)
(* C18 (as amended): for the three shops and the query 'moon' the result   *)
(* has exactly one shop, Moonbean Coffee, and it scores through the        *)
(* starts-with rule with 80 points: its lower-cased name starts with       *)
(* 'moon', and that rule is tried before the word rule.                    *)
(***************************************************************************)
C18_MoonPrefix ==
    (Returned /\ AllThreeListed /\ NormalizedQuery = Moon) =>
        /\ MoonbeanAlone
        /\ OccursAt(toLowerCase(results.shops[1].name), Moon, 1)
        /\ results.shops[1]._score
              - Bonus(results.shops[1], NormalizedQuery) = 80

C18_Witness ==
    /\ Returned
    /\ AllThreeListed
    /\ query # Moon
    /\ NormalizedQuery = Moon
    /\ shops[3].id = 1
    /\ shops[3].description # NULL
    /\ MoonbeanAlone
    /\ results.shops[1]._score = 80

\* C18 as stated: Moonbean Coffee alone, through the word rule with 60.
C18_AsStated ==
    (Returned /\ AllThreeListed /\ NormalizedQuery = Moon) =>
        /\ MoonbeanAlone
        /\ results.shops[1]._score
              - Bonus(results.shops[1], NormalizedQuery) = 60

(***************************************************************************)
(* C19 (as amended): for the three shops and the query 'coffee' each name  *)
(* gets its contribution from the word rule, +60 each (no name equals or   *)
(* starts with 'coffee', and the word 'coffee' of each name starts with    *)
(* it); all three are returned, in their input order.                      *)
(***************************************************************************)
C19_CoffeeWordRule ==
    (Returned /\ AllThreeListed /\ NormalizedQuery = Coffee) =>
        /\ Len(results.shops) = 3
        /\ \A k \in 1..3 :
              /\ results.shops[k].id = shops[k].id
              /\ ~OccursAt(NameOf(k), Coffee, 1)
              /\ SpaceWordStartsWith(NameOf(k), Coffee)
              /\ NameContribution(k) = 60

C19_Witness ==
    /\ Returned
    /\ AllThreeListed
    /\ NormalizedQuery = Coffee
    /\ shops[1].id = 3
    /\ shops[2].id = 1
    /\ shops[1].description # NULL
    /\ Len(results.shops) = 3
    /\ results.shops[1].id = 3
    /\ results.shops[1]._score = 80
    /\ results.shops[3]._score = 80

\* C19 as stated: each name contributes through the substring rule, +40.
C19_AsStated ==
    (Returned /\ AllThreeListed /\ NormalizedQuery = Coffee) =>
        /\ Len(results.shops) = 3
        /\ \A k \in 1..3 :
              /\ results.shops[k].id = shops[k].id
              /\ NameContribution(k) = 40

(***************************************************************************)
(* C20: the typo 'moonbeon' against Moonbean Coffee.                       *)
(***************************************************************************)

\* C20: for the query 'moonbeon' and a candidate named Moonbean Coffee whose
\* description and address do not match, no name rule applies and the
\* similarity is that of 'moonbeon' and the whole name 'moonbean coffee';
\* the candidate is returned with round(similarity * 30) points if the
\* similarity exceeds 0.6 and is not returned otherwise.
C20_TypoAgainstFullName ==
    (Returned /\ NormalizedQuery = Moonbeon) =>
        \A i \in 1..Len(shops) :
            (NameOf(i) = MoonbeanCoffee /\ Bonus(shops[i], Moonbeon) = 0) =>
                LET L == Max2(Len(Moonbeon), Len(MoonbeanCoffee))
                    d == levenshteinDistance(Moonbeon, MoonbeanCoffee)
                    place == PlaceOf(shops[i].id)
                IN  /\ TierOf(i) = 0
                    /\ IF 5 * (L - d) > 3 * L
                       THEN /\ place > 0
                            /\ 2 * L * results.shops[place]._score - L
                                  <= 60 * (L - d)
                            /\ 60 * (L - d)
                                  < 2 * L * results.shops[place]._score + L
                       ELSE place = 0

\* Eight edits over fifteen characters, a similarity of 7/15: not returned.
C20_Witness ==
    /\ Returned
    /\ query # Moonbeon
    /\ NormalizedQuery = Moonbeon
    /\ \E i \in 1..Len(shops) :
          /\ NameOf(i) = MoonbeanCoffee
          /\ shops[i].description # NULL
          /\ Bonus(shops[i], Moonbeon) = 0
          /\ PlaceOf(shops[i].id) = 0
    /\ levenshteinDistance(Moonbeon, MoonbeanCoffee) = 8
    /\ results.shops = <<>>

---------------------------------------------------------------------------
(***************************************************************************)
(* The cart store (frontend/src/stores/cartStore.ts).  A cart line keeps   *)
(* the fields the store reads or writes: id, menuItemId, shopId, shopName, *)
(* quantity and customizations; name, price and imageUrl are copied and    *)
(* never read by addItem, removeItem, updateQuantity or clearCart.  An     *)
(* object of customizations is the sequence of its <<key, value>> pairs in *)
(* insertion order, which is the order JSON.stringify writes them in.      *)
(***************************************************************************)

MaxCartLines == 3
MaxQuantity == 2
MaxClock == 2

\* JSON.stringify of a Record<string, string>: {"k":"v","k":"v"}
RECURSIVE JSONmembers(_)
JSONmembers(c) ==
    IF c = <<>> THEN <<>>
    ELSE <<"\"", Head(c)[1], "\"", ":", "\"", Head(c)[2], "\"">>
         \o (IF Tail(c) = <<>> THEN <<>> ELSE <<",">> \o JSONmembers(Tail(c)))

JSONstringify(c) == <<"{">> \o JSONmembers(c) \o <<"}">>

\* Array.prototype.findIndex with addItem's predicate: 0 stands for -1.
findIndex(lines, item) ==
    LET Same(i) == /\ lines[i].menuItemId = item.menuItemId
                   /\ JSONstringify(lines[i].customizations)
                         = JSONstringify(item.customizations)
    IN  IF \E i \in 1..Len(lines) : Same(i)
        THEN CHOOSE i \in 1..Len(lines) :
                 Same(i) /\ \A j \in 1..(i - 1) : ~Same(j)
        ELSE 0

\* The cart as get() returns it.
Cart == [items |-> items, shopId |-> shopId, shopName |-> shopName]

\* addItem(item) at Date.now() = t.  `lines` is the list read by get()
\* before the clearing set() of line 39, which the rest of the function
\* goes on using.
addItem(cart, item, t) ==
    LET otherShop == cart.shopId # <<>> /\ cart.shopId[1] # item.shopId
        cleared   == IF otherShop
                     THEN [items |-> <<>>, shopId |-> <<item.shopId>>,
                           shopName |-> <<item.shopName>>]
                     ELSE cart
        lines         == cart.items
        existingIndex == findIndex(lines, item)
    IN  IF existingIndex >= 1
        THEN [cleared EXCEPT !.items =
                 [lines EXCEPT ![existingIndex].quantity = @ + item.quantity]]
        ELSE [items    |-> Append(lines,
                                  [id |-> <<item.menuItemId, t>>,
                                   menuItemId |-> item.menuItemId,
                                   shopId |-> item.shopId,
                                   shopName |-> item.shopName,
                                   quantity |-> item.quantity,
                                   customizations |-> item.customizations]),
              shopId   |-> <<item.shopId>>,
              shopName |-> <<item.shopName>>]

\* removeItem that leaves shopId and shopName as they are.
removeItemKeepingShop(cart, id) ==
    [cart EXCEPT !.items = SelectSeq(cart.items, LAMBDA line : line.id # id)]

removeItem(cart, id) ==
    LET kept == SelectSeq(cart.items, LAMBDA line : line.id # id)
    IN  IF Len(kept) = 0
        THEN [items |-> <<>>, shopId |-> <<>>, shopName |-> <<>>]
        ELSE [cart EXCEPT !.items = kept]

updateQuantity(cart, id, quantity) ==
    IF quantity <= 0 THEN removeItem(cart, id)
    ELSE [cart EXCEPT !.items =
             [i \in 1..Len(cart.items) |->
                 IF cart.items[i].id = id
                 THEN [cart.items[i] EXCEPT !.quantity = quantity]
                 ELSE cart.items[i]]]

clearCart == [items |-> <<>>, shopId |-> <<>>, shopName |-> <<>>]

(* What the screens pass to the store.                                     *)

CartShopNames == [s1 |-> "Moonbean Coffee", s2 |-> "Opal Coffee"]

MilkThenSize == << <<"milk", "Oat">>, <<"size", "Large">> >>
SizeThenMilk == << <<"size", "Large">>, <<"milk", "Oat">> >>

\* A latte of the first shop with its two options chosen in either order,
\* and a mocha of the second shop without options.
NewItems ==
    {[menuItemId |-> "latte", shopId |-> "s1", shopName |-> CartShopNames["s1"],
      quantity |-> q, customizations |-> c] :
        q \in 1..MaxQuantity, c \in {MilkThenSize, SizeThenMilk}}
    \cup
    {[menuItemId |-> "mocha", shopId |-> "s2", shopName |-> CartShopNames["s2"],
      quantity |-> q, customizations |-> <<>>] : q \in 1..MaxQuantity}

\* The ids a screen can pass: those of the lines shown, and one of no line.
LineIds == {items[i].id : i \in 1..Len(items)} \cup {<<"none", 0>>}

Fits(cart) ==
    /\ Len(cart.items) <= MaxCartLines
    /\ \A i \in 1..Len(cart.items) : cart.items[i].quantity <= MaxQuantity

SetCart(cart) ==
    /\ items' = cart.items
    /\ shopId' = cart.shopId
    /\ shopName' = cart.shopName

\* The searches' and the other stores' state while the cart is checked.
SearchIdle ==
    /\ shops = <<>>
    /\ UiIdle
    /\ query = <<>>
    /\ results = EmptyResults
    /\ threw = FALSE
    /\ pc = "ui"
    /\ LevIdle

CartInit ==
    /\ SearchIdle
    /\ StoreIdle

\* addItem(item); elapsed: whether the clock has moved on since the last
\* addItem read it.
AddItem(item, elapsed) ==
    /\ now + elapsed <= MaxClock
    /\ Fits(addItem(Cart, item, now + elapsed))
    /\ SetCart(addItem(Cart, item, now + elapsed))
    /\ now' = now + elapsed
    /\ UNCHANGED <<searchVars, notificationVars, authVars, checkoutVars>>

RemoveItem(id) ==
    /\ SetCart(removeItem(Cart, id))
    /\ UNCHANGED <<now, searchVars, notificationVars, authVars, checkoutVars>>

UpdateQuantity(id, quantity) ==
    /\ SetCart(updateQuantity(Cart, id, quantity))
    /\ UNCHANGED <<now, searchVars, notificationVars, authVars, checkoutVars>>

ClearCart ==
    /\ SetCart(clearCart)
    /\ UNCHANGED <<now, searchVars, notificationVars, authVars, checkoutVars>>

CartNext ==
    \/ \E item \in NewItems, elapsed \in 0..1 : AddItem(item, elapsed)
    \/ \E id \in LineIds : RemoveItem(id)
    \/ \E id \in LineIds, quantity \in 0..MaxQuantity : UpdateQuantity(id, quantity)
    \/ ClearCart

SpecCart == CartInit /\ [][CartNext]_vars

(***************************************************************************)
(* C21: every line of the cart is of the cart's shop.                      *)
(***************************************************************************)

\* C21: every item in the cart has shopId equal to the cart's shopId; an
\* item of another shop is added to a cart cleared of the previous shop's
\* items.
C21_LinesOfCartShop ==
    \A i \in 1..Len(items) : shopId # <<>> /\ items[i].shopId = shopId[1]

(***************************************************************************)
(* C26: the cart is empty exactly when it has no shop.                     *)
(***************************************************************************)

\* C26: items is empty if and only if shopId and shopName are both null.
C26_EmptyIffNoShop ==
    /\ items = <<>> <=> (shopId = <<>> /\ shopName = <<>>)
    /\ shopId = <<>> <=> shopName = <<>>

\* A cart emptied again after lines were added to it, and refilled.
C26_Witness ==
    /\ now = MaxClock
    /\ Len(items) = 1
    /\ items[1].id[2] = 0
    /\ items[1].quantity = MaxQuantity
    /\ shopId = <<"s1">>

(***************************************************************************)
(* C29: one line per menu item and customizations.                         *)
(***************************************************************************)

\* The customizations as a mapping: what two equal objects have in common.
AsMapping(c) == {c[k] : k \in 1..Len(c)}

\* C29: no two cart lines have the same menuItemId together with equal
\* customizations, and no line has a quantity below 1.
C29_OneLinePerChoice ==
    /\ \A i \in 1..Len(items), j \in 1..Len(items) :
          ( /\ items[i].menuItemId = items[j].menuItemId
            /\ AsMapping(items[i].customizations)
                  = AsMapping(items[j].customizations) )
          => i = j
    /\ \A i \in 1..Len(items) : items[i].quantity >= 1

---------------------------------------------------------------------------
(***************************************************************************)
(* The notification store (frontend/src/stores/notificationStore.ts).  A   *)
(* notification keeps id and read, the fields the store's state depends    *)
(* on.  Ids are distinct: addNotification draws an id no listed            *)
(* notification has, and the server lists no id twice.                     *)
(***************************************************************************)

MaxNotifications == 3
MaxFetches == 2

NotificationIds == 1..MaxNotifications

Notifications == [id : NotificationIds, read : BOOLEAN]

\* response.data of GET /notifications/{userId}: up to two notifications.
ServerNotifications ==
    {<<>>}
    \cup {<<n>> : n \in Notifications}
    \cup {pair \in {<<n, m>> : n \in Notifications, m \in Notifications} :
             pair[1].id # pair[2].id}

\* notifications.filter(n => !n.read).length
Unread(list) == Cardinality({i \in 1..Len(list) : ~list[i].read})

\* state.notifications.find(n => n.id === id) is there and unread.
wasUnread(list, id) ==
    /\ \E i \in 1..Len(list) : list[i].id = id
    /\ ~list[CHOOSE i \in 1..Len(list) :
                 list[i].id = id /\ \A j \in 1..(i - 1) : list[j].id # id].read

NotificationInit ==
    /\ SearchIdle
    /\ StoreIdle

\* fetchNotifications(userId) up to the await.
FetchNotifications ==
    /\ fetching < MaxFetches
    /\ notificationsLoading' = TRUE
    /\ fetching' = fetching + 1
    /\ UNCHANGED <<notifications, unreadCount>>
    /\ UNCHANGED <<searchVars, cartVars, authVars, checkoutVars>>

\* The request of a fetchNotifications call resolves.
FetchSucceeds(data) ==
    /\ fetching > 0
    /\ fetching' = fetching - 1
    /\ notifications' = data
    /\ unreadCount' = Unread(data)
    /\ notificationsLoading' = FALSE
    /\ UNCHANGED <<searchVars, cartVars, authVars, checkoutVars>>

\* The request of a fetchNotifications call rejects.
FetchFails ==
    /\ fetching > 0
    /\ fetching' = fetching - 1
    /\ notificationsLoading' = FALSE
    /\ UNCHANGED <<notifications, unreadCount>>
    /\ UNCHANGED <<searchVars, cartVars, authVars, checkoutVars>>

AddNotification(notification) ==
    /\ Len(notifications) < MaxNotifications
    /\ \A i \in 1..Len(notifications) : notifications[i].id # notification.id
    /\ notifications' = <<notification>> \o notifications
    /\ unreadCount' = unreadCount + (IF notification.read THEN 0 ELSE 1)
    /\ UNCHANGED <<notificationsLoading, fetching>>
    /\ UNCHANGED <<searchVars, cartVars, authVars, checkoutVars>>

\* markAsRead counting down whether or not the notification was unread.
MarkAsReadCountingDown(id) ==
    /\ notifications' = [i \in 1..Len(notifications) |->
                            IF notifications[i].id = id
                            THEN [notifications[i] EXCEPT !.read = TRUE]
                            ELSE notifications[i]]
    /\ unreadCount' = unreadCount - 1
    /\ UNCHANGED <<notificationsLoading, fetching>>
    /\ UNCHANGED <<searchVars, cartVars, authVars, checkoutVars>>

MarkAsRead(id) ==
    /\ notifications' = [i \in 1..Len(notifications) |->
                            IF notifications[i].id = id
                            THEN [notifications[i] EXCEPT !.read = TRUE]
                            ELSE notifications[i]]
    /\ unreadCount' = IF wasUnread(notifications, id)
                      THEN unreadCount - 1 ELSE unreadCount
    /\ UNCHANGED <<notificationsLoading, fetching>>
    /\ UNCHANGED <<searchVars, cartVars, authVars, checkoutVars>>

MarkAllAsRead ==
    /\ notifications' = [i \in 1..Len(notifications) |->
                            [notifications[i] EXCEPT !.read = TRUE]]
    /\ unreadCount' = 0
    /\ UNCHANGED <<notificationsLoading, fetching>>
    /\ UNCHANGED <<searchVars, cartVars, authVars, checkoutVars>>

ClearNotification(id) ==
    /\ notifications' = SelectSeq(notifications, LAMBDA n : n.id # id)
    /\ unreadCount' = IF wasUnread(notifications, id)
                      THEN unreadCount - 1 ELSE unreadCount
    /\ UNCHANGED <<notificationsLoading, fetching>>
    /\ UNCHANGED <<searchVars, cartVars, authVars, checkoutVars>>

ClearAll ==
    /\ notifications' = <<>>
    /\ unreadCount' = 0
    /\ UNCHANGED <<notificationsLoading, fetching>>
    /\ UNCHANGED <<searchVars, cartVars, authVars, checkoutVars>>

NotificationNext ==
    \/ FetchNotifications
    \/ \E data \in ServerNotifications : FetchSucceeds(data)
    \/ FetchFails
    \/ \E notification \in Notifications : AddNotification(notification)
    \/ \E id \in NotificationIds : MarkAsRead(id)
    \/ MarkAllAsRead
    \/ \E id \in NotificationIds : ClearNotification(id)
    \/ ClearAll

SpecNotification == NotificationInit /\ [][NotificationNext]_vars

(***************************************************************************)
(* C23: unreadCount counts the unread notifications.                       *)
(***************************************************************************)

\* C23: with distinct ids, unreadCount is the number of listed notifications
\* whose read flag is false, and is never negative.
C23_UnreadCount ==
    /\ unreadCount = Cardinality({i \in 1..Len(notifications) :
                                     notifications[i].read = FALSE})
    /\ unreadCount >= 0

\* Read and unread notifications side by side while a fetch is under way.
C23_Witness ==
    /\ Len(notifications) = 3
    /\ unreadCount = 2
    /\ notifications[2].read
    /\ fetching > 0

---------------------------------------------------------------------------
(***************************************************************************)
(* The auth store (frontend/src/stores/authStore.ts).  A session keeps     *)
(* access_token and user.  setAuthToken (lib/api) is taken to keep its     *)
(* argument as the API client's token; authToken is the argument of its    *)
(* last call.  A call of an asynchronous function is counted in authCalls  *)
(* from its first statement to its return.                                 *)
(***************************************************************************)

MaxAuthCalls == 2

\* Sessions supabase can deliver: two users, the first with a refreshed token.
Sessions ==
    {[access_token |-> "t1", user |-> "u1"],
     [access_token |-> "t2", user |-> "u1"],
     [access_token |-> "t3", user |-> "u2"]}

ErrorMessage == "Invalid login credentials"

InFlight ==
    authCalls["initialize"] + authCalls["signIn"] + authCalls["signUp"]
    + authCalls["signOut"] + authCalls["resetPassword"]

Begin(op) ==
    /\ InFlight < MaxAuthCalls
    /\ authCalls' = [authCalls EXCEPT ![op] = @ + 1]

\* The call returns; completed records it with isLoading as it leaves it.
End(op, outcome) ==
    /\ authCalls[op] > 0
    /\ authCalls' = [authCalls EXCEPT ![op] = @ - 1]
    /\ completed' = <<[op |-> op, outcome |-> outcome, isLoading |-> isLoading']>>

\* setAuthToken(s.access_token); set({ user: s.user, session: s })
SetSession(s) ==
    /\ authToken' = <<s.access_token>>
    /\ user' = <<s.user>>
    /\ session' = <<s>>

AuthInit ==
    /\ SearchIdle
    /\ StoreIdle

\* initialize() up to the await of getSession().
Initialize ==
    /\ Begin("initialize")
    /\ UNCHANGED <<user, session, isLoading, isInitialized, error, authToken,
                   listeners, completed>>
    /\ UNCHANGED <<searchVars, cartVars, notificationVars, checkoutVars>>

\* getSession() resolves with a session.
InitializeFindsSession(s) ==
    /\ SetSession(s)
    /\ isInitialized' = TRUE
    /\ listeners' = 1
    /\ UNCHANGED <<isLoading, error>>
    /\ End("initialize", "session")
    /\ UNCHANGED <<searchVars, cartVars, notificationVars, checkoutVars>>

\* getSession() resolves without a session.
InitializeFindsNone ==
    /\ isInitialized' = TRUE
    /\ listeners' = 1
    /\ UNCHANGED <<user, session, authToken, isLoading, error>>
    /\ End("initialize", "no session")
    /\ UNCHANGED <<searchVars, cartVars, notificationVars, checkoutVars>>

\* getSession() throws.
InitializeThrows ==
    /\ isInitialized' = TRUE
    /\ UNCHANGED <<user, session, authToken, isLoading, error, listeners>>
    /\ End("initialize", "thrown")
    /\ UNCHANGED <<searchVars, cartVars, notificationVars, checkoutVars>>

\* The callback given to onAuthStateChange runs with a session.
AuthStateChange(s) ==
    /\ listeners > 0
    /\ SetSession(s)
    /\ UNCHANGED <<isLoading, isInitialized, error, listeners, authCalls, completed>>
    /\ UNCHANGED <<searchVars, cartVars, notificationVars, checkoutVars>>

\* The callback given to onAuthStateChange runs without a session.
AuthStateChangeSignedOut ==
    /\ listeners > 0
    /\ authToken' = <<>>
    /\ user' = <<>>
    /\ session' = <<>>
    /\ UNCHANGED <<isLoading, isInitialized, error, listeners, authCalls, completed>>
    /\ UNCHANGED <<searchVars, cartVars, notificationVars, checkoutVars>>

\* signIn, signUp and resetPassword up to the await.
BeginWithErrorCleared(op) ==
    /\ Begin(op)
    /\ isLoading' = TRUE
    /\ error' = <<>>
    /\ UNCHANGED <<user, session, isInitialized, authToken, listeners, completed>>
    /\ UNCHANGED <<searchVars, cartVars, notificationVars, checkoutVars>>

SignIn == BeginWithErrorCleared("signIn")

SignUp == BeginWithErrorCleared("signUp")

ResetPassword == BeginWithErrorCleared("resetPassword")

\* The supabase call of signIn, signUp or resetPassword returns an error or
\* throws: both set isLoading false and the message.
EndsWithError(op, outcome) ==
    /\ isLoading' = FALSE
    /\ error' = <<ErrorMessage>>
    /\ End(op, outcome)
    /\ UNCHANGED <<user, session, isInitialized, authToken, listeners>>
    /\ UNCHANGED <<searchVars, cartVars, notificationVars, checkoutVars>>

\* signInWithPassword resolves with a session.
SignInSucceeds(s) ==
    /\ SetSession(s)
    /\ isLoading' = FALSE
    /\ End("signIn", "session")
    /\ UNCHANGED <<isInitialized, error, listeners>>
    /\ UNCHANGED <<searchVars, cartVars, notificationVars, checkoutVars>>

\* signInWithPassword resolves with neither error nor session: nothing is
\* set before return { success: true }.
SignInWithoutSession ==
    /\ isLoading' = isLoading
    /\ End("signIn", "no session")
    /\ UNCHANGED <<user, session, isInitialized, error, authToken, listeners>>
    /\ UNCHANGED <<searchVars, cartVars, notificationVars, checkoutVars>>

SignInFails(outcome) == EndsWithError("signIn", outcome)

\* supabase.auth.signUp resolves with a session.
SignUpSucceeds(s) ==
    /\ SetSession(s)
    /\ isLoading' = FALSE
    /\ End("signUp", "session")
    /\ UNCHANGED <<isInitialized, error, listeners>>
    /\ UNCHANGED <<searchVars, cartVars, notificationVars, checkoutVars>>

\* supabase.auth.signUp resolves without a session (email to be confirmed).
SignUpWithoutSession ==
    /\ isLoading' = FALSE
    /\ End("signUp", "no session")
    /\ UNCHANGED <<user, session, isInitialized, error, authToken, listeners>>
    /\ UNCHANGED <<searchVars, cartVars, notificationVars, checkoutVars>>

SignUpFails(outcome) == EndsWithError("signUp", outcome)

\* signOut() up to the await.
SignOut ==
    /\ Begin("signOut")
    /\ isLoading' = TRUE
    /\ UNCHANGED <<user, session, isInitialized, error, authToken, listeners,
                   completed>>
    /\ UNCHANGED <<searchVars, cartVars, notificationVars, checkoutVars>>

\* signOut's try block without setAuthToken(null).
SignOutReturnsKeepingToken ==
    /\ user' = <<>>
    /\ session' = <<>>
    /\ isLoading' = FALSE
    /\ End("signOut", "resolved")
    /\ UNCHANGED <<isInitialized, error, listeners, authToken>>
    /\ UNCHANGED <<searchVars, cartVars, notificationVars, checkoutVars>>

\* supabase.auth.signOut() resolves (its result is not looked at).
SignOutReturns ==
    /\ authToken' = <<>>
    /\ user' = <<>>
    /\ session' = <<>>
    /\ isLoading' = FALSE
    /\ End("signOut", "resolved")
    /\ UNCHANGED <<isInitialized, error, listeners>>
    /\ UNCHANGED <<searchVars, cartVars, notificationVars, checkoutVars>>

\* supabase.auth.signOut() throws.
SignOutThrows ==
    /\ isLoading' = FALSE
    /\ End("signOut", "thrown")
    /\ UNCHANGED <<user, session, isInitialized, error, authToken, listeners>>
    /\ UNCHANGED <<searchVars, cartVars, notificationVars, checkoutVars>>

\* resetPasswordForEmail resolves without error.
ResetPasswordSucceeds ==
    /\ isLoading' = FALSE
    /\ End("resetPassword", "sent")
    /\ UNCHANGED <<user, session, isInitialized, error, authToken, listeners>>
    /\ UNCHANGED <<searchVars, cartVars, notificationVars, checkoutVars>>

ResetPasswordFails(outcome) == EndsWithError("resetPassword", outcome)

ClearError ==
    /\ error' = <<>>
    /\ UNCHANGED <<user, session, isLoading, isInitialized, authToken,
                   listeners, authCalls, completed>>
    /\ UNCHANGED <<searchVars, cartVars, notificationVars, checkoutVars>>

Failures == {"error", "thrown"}

AuthNext ==
    \/ Initialize
    \/ \E s \in Sessions : InitializeFindsSession(s)
    \/ InitializeFindsNone
    \/ InitializeThrows
    \/ \E s \in Sessions : AuthStateChange(s)
    \/ AuthStateChangeSignedOut
    \/ SignIn
    \/ \E s \in Sessions : SignInSucceeds(s)
    \/ SignInWithoutSession
    \/ \E outcome \in Failures : SignInFails(outcome)
    \/ SignUp
    \/ \E s \in Sessions : SignUpSucceeds(s)
    \/ SignUpWithoutSession
    \/ \E outcome \in Failures : SignUpFails(outcome)
    \/ SignOut
    \/ SignOutReturns
    \/ SignOutThrows
    \/ ResetPassword
    \/ ResetPasswordSucceeds
    \/ \E outcome \in Failures : ResetPasswordFails(outcome)
    \/ ClearError

SpecAuth == AuthInit /\ [][AuthNext]_vars

(***************************************************************************)
(* C24: isLoading when a call returns.                                     *)
(***************************************************************************)

\* C24: when a call of signIn, signUp, signOut or resetPassword returns,
\* whatever its outcome, isLoading is false.
C24_NotLoadingOnReturn ==
    \A k \in 1..Len(completed) :
        completed[k].op \in {"signIn", "signUp", "signOut", "resetPassword"}
        => completed[k].isLoading = FALSE

(***************************************************************************)
(* C28: user, session and the API client's token go together.              *)
(***************************************************************************)

\* C28: user is null if and only if session is null, and the token given to
\* the API client is the session's access_token when a session is held and
\* null when none is held.
C28_TokenOfSession ==
    /\ user = <<>> <=> session = <<>>
    /\ session # <<>> => authToken = <<session[1].access_token>>
    /\ session = <<>> => authToken = <<>>

\* Signed out, then signed in again by a call that was still under way,
\* with another call in flight.
C28_Witness ==
    /\ completed # <<>>
    /\ completed[1].op = "signIn"
    /\ completed[1].outcome = "session"
    /\ session # <<>>
    /\ session[1].access_token = "t3"
    /\ user = <<"u2">>
    /\ authCalls["signOut"] > 0
    /\ isInitialized

---------------------------------------------------------------------------
(***************************************************************************)
(* handlePlaceOrder of the checkout screen (frontend/app/checkout.tsx,     *)
(* first component of the file).  orderStep is the await the handler is    *)
(* at, or the way its last run ended.  The button that starts it shows     *)
(* loading and takes no press while loading is true, so one run is under   *)
(* way at a time; a run reads selectedPaymentType and selectedSavedMethodId*)
(* as they were at the press, and the selection is changed between runs.   *)
(***************************************************************************)

Finished == {"idle", "rejected", "placed", "failed", "cancelled"}

SavedMethodIds == {"pm1", "pm2"}

\* What GET /wallet and GET /payments/methods can answer: the saved methods,
\* the place of the default one (0: none is marked), and whether the
\* balance covers the total.
PaymentContexts ==
    {[methods |-> m, default |-> d, covers |-> b] :
        m \in {<<>>, <<"pm1">>, <<"pm1", "pm2">>}, d \in 0..2, b \in BOOLEAN}

\* The carts the screen is opened with.
CheckoutCarts ==
    {clearCart,
     addItem(clearCart,
             [menuItemId |-> "latte", shopId |-> "s1",
              shopName |-> CartShopNames["s1"], quantity |-> 1,
              customizations |-> MilkThenSize], 0),
     addItem(clearCart,
             [menuItemId |-> "mocha", shopId |-> "s2",
              shopName |-> CartShopNames["s2"], quantity |-> MaxQuantity,
              customizations |-> <<>>], 0)}

\* The screen is opened signed in or not, with some cart.
CheckoutInit ==
    /\ SearchIdle
    /\ NotificationIdle
    /\ CheckoutIdle
    /\ now = 0
    /\ \E cart \in CheckoutCarts :
        /\ items = cart.items
        /\ shopId = cart.shopId
        /\ shopName = cart.shopName
    /\ \E s \in {<<>>, <<[access_token |-> "t1", user |-> "u1"]>>} :
        /\ session = s
        /\ user = IF s = <<>> THEN <<>> ELSE <<s[1].user>>
        /\ authToken = IF s = <<>> THEN <<>> ELSE <<s[1].access_token>>
    /\ isLoading = FALSE
    /\ isInitialized = TRUE
    /\ error = <<>>
    /\ listeners = 1
    /\ authCalls = [op \in AuthOps |-> 0]
    /\ completed = <<>>

\* The tail of fetchPaymentContext: what it selects, or nothing when one of
\* its requests failed (it catches its own errors).
ApplyPaymentContext(ok, ctx) ==
    IF ~ok
    THEN UNCHANGED <<selectedPaymentType, selectedSavedMethodId>>
    ELSE IF Len(ctx.methods) > 0
    THEN /\ selectedSavedMethodId' =
             <<IF ctx.default \in 1..Len(ctx.methods)
               THEN ctx.methods[ctx.default] ELSE ctx.methods[1]>>
         /\ selectedPaymentType' = "saved"
    ELSE /\ selectedPaymentType' = IF ctx.covers THEN "wallet" ELSE "new"
         /\ UNCHANGED selectedSavedMethodId

\* useEffect on user.id: fetchPaymentContext outside a run of the handler.
FetchPaymentContext(ok, ctx) ==
    /\ orderStep \in Finished
    /\ user # <<>>
    /\ ApplyPaymentContext(ok, ctx)
    /\ UNCHANGED <<loading, processingPayment, orderStep, createdOrderId,
                   orderConfirmed, charged, cancelSent>>
    /\ UNCHANGED <<searchVars, cartVars, notificationVars, authVars>>

\* The payment rows: wallet, a saved card, or a new payment method.
SelectPayment(type, method) ==
    /\ orderStep \in Finished
    /\ selectedPaymentType' = type
    /\ selectedSavedMethodId' =
           IF type = "saved" THEN <<method>> ELSE selectedSavedMethodId
    /\ UNCHANGED <<loading, processingPayment, orderStep, createdOrderId,
                   orderConfirmed, charged, cancelSent>>
    /\ UNCHANGED <<searchVars, cartVars, notificationVars, authVars>>

\* The guards of handlePlaceOrder.  canUseWallet is walletBalance >= total;
\* sheetUsable is Platform.OS # 'web' and stripe.available.
Rejects(canUseWallet, sheetUsable) ==
    \/ user = <<>>
    \/ Len(items) = 0
    \/ selectedPaymentType = "wallet" /\ ~canUseWallet
    \/ selectedPaymentType = "saved" /\ selectedSavedMethodId = <<>>
    \/ selectedPaymentType = "new" /\ ~sheetUsable

\* A press that a guard turns down: the handler returns before setLoading.
\* createdOrderId and orderConfirmed are locals of a run; this run has
\* created and confirmed no order.
PressRejected(canUseWallet, sheetUsable) ==
    /\ orderStep \in Finished
    /\ Rejects(canUseWallet, sheetUsable)
    /\ orderStep' = "rejected"
    /\ createdOrderId' = <<>>
    /\ orderConfirmed' = FALSE
    /\ charged' = FALSE
    /\ cancelSent' = FALSE
    /\ UNCHANGED <<loading, processingPayment, selectedPaymentType,
                   selectedSavedMethodId>>
    /\ UNCHANGED <<searchVars, cartVars, notificationVars, authVars>>

\* A press that passes the guards, up to the await of POST /orders.
PressAccepted(canUseWallet, sheetUsable) ==
    /\ orderStep \in Finished
    /\ ~Rejects(canUseWallet, sheetUsable)
    /\ loading' = TRUE
    /\ processingPayment' = TRUE
    /\ createdOrderId' = <<>>
    /\ orderConfirmed' = FALSE
    /\ charged' = FALSE
    /\ cancelSent' = FALSE
    /\ orderStep' = "createOrder"
    /\ UNCHANGED <<selectedPaymentType, selectedSavedMethodId>>
    /\ UNCHANGED <<searchVars, cartVars, notificationVars, authVars>>

\* The handler goes from one await to the next; nothing else is written.
Advance(from, to) ==
    /\ orderStep = from
    /\ orderStep' = to
    /\ UNCHANGED <<loading, processingPayment, selectedPaymentType,
                   selectedSavedMethodId>>
    /\ UNCHANGED <<searchVars, cartVars, notificationVars, authVars>>

\* finally: setLoading(false); setProcessingPayment(false).
Finally(end) ==
    /\ loading' = FALSE
    /\ processingPayment' = FALSE
    /\ orderStep' = end

\* POST /orders resolves.
OrderCreated ==
    /\ Advance("createOrder",
               IF selectedPaymentType = "wallet" THEN "walletPay"
               ELSE IF selectedPaymentType = "saved" /\ selectedSavedMethodId # <<>>
               THEN "savedPay"
               ELSE "createIntent")
    /\ createdOrderId' = <<"o1">>
    /\ UNCHANGED <<orderConfirmed, charged, cancelSent>>

\* POST /wallet/pay resolves: the wallet is debited.
WalletPaid ==
    /\ Advance("walletPay", "walletConfirm")
    /\ charged' = TRUE
    /\ UNCHANGED <<createdOrderId, orderConfirmed, cancelSent>>

\* PATCH status=confirmed resolves; then clearCart() and finally.
WalletConfirmed ==
    /\ orderStep = "walletConfirm"
    /\ orderConfirmed' = TRUE
    /\ SetCart(clearCart)
    /\ Finally("placed")
    /\ UNCHANGED <<selectedPaymentType, selectedSavedMethodId, createdOrderId,
                   charged, cancelSent>>
    /\ UNCHANGED <<now, searchVars, notificationVars, authVars>>

\* POST /stripe/pay-with-saved-method resolves: the card is charged.
SavedMethodPaid ==
    /\ Advance("savedPay", "confirmPayment")
    /\ charged' = TRUE
    /\ UNCHANGED <<createdOrderId, orderConfirmed, cancelSent>>

\* POST /stripe/create-payment-intent resolves.
IntentCreated ==
    /\ Advance("createIntent", "initSheet")
    /\ UNCHANGED <<createdOrderId, orderConfirmed, charged, cancelSent>>

\* initPaymentSheet resolves without error.
SheetInitialized ==
    /\ Advance("initSheet", "presentSheet")
    /\ UNCHANGED <<createdOrderId, orderConfirmed, charged, cancelSent>>

\* presentPaymentSheet resolves without error: the payment is made.
SheetCompleted ==
    /\ Advance("presentSheet", "confirmPayment")
    /\ charged' = TRUE
    /\ UNCHANGED <<createdOrderId, orderConfirmed, cancelSent>>

\* presentPaymentSheet resolves with the error code 'Canceled': the handler
\* sends PATCH status=cancelled and awaits it.
SheetCanceled ==
    /\ Advance("presentSheet", "cancelByUser")
    /\ cancelSent' = TRUE
    /\ UNCHANGED <<createdOrderId, orderConfirmed, charged>>

\* The return after the user's cancellation, without the finally block.
CancelByUserSettlesStillLoading ==
    /\ orderStep = "cancelByUser"
    /\ orderStep' = "cancelled"
    /\ UNCHANGED <<loading, processingPayment, selectedPaymentType,
                   selectedSavedMethodId, createdOrderId, orderConfirmed,
                   charged, cancelSent>>
    /\ UNCHANGED <<searchVars, cartVars, notificationVars, authVars>>

\* That PATCH resolves: return, through finally.
CancelByUserSettles ==
    /\ orderStep = "cancelByUser"
    /\ Finally("cancelled")
    /\ UNCHANGED <<selectedPaymentType, selectedSavedMethodId, createdOrderId,
                   orderConfirmed, charged, cancelSent>>
    /\ UNCHANGED <<searchVars, cartVars, notificationVars, authVars>>

\* POST /stripe/confirm-payment resolves; fetchPaymentContext is awaited.
PaymentConfirmed ==
    /\ Advance("confirmPayment", "refresh")
    /\ orderConfirmed' = TRUE
    /\ UNCHANGED <<createdOrderId, charged, cancelSent>>

\* fetchPaymentContext returns; then clearCart() and finally.
Refreshed(ok, ctx) ==
    /\ orderStep = "refresh"
    /\ ApplyPaymentContext(ok, ctx)
    /\ SetCart(clearCart)
    /\ Finally("placed")
    /\ UNCHANGED <<createdOrderId, orderConfirmed, charged, cancelSent>>
    /\ UNCHANGED <<now, searchVars, notificationVars, authVars>>

\* The awaits of the try block that can reject (or, for the payment sheet,
\* resolve with an error that is thrown).
Throwing ==
    {"createOrder", "walletPay", "walletConfirm", "savedPay", "createIntent",
     "initSheet", "presentSheet", "confirmPayment", "cancelByUser"}

\* catch: an order created and not confirmed is cancelled, and that PATCH
\* is awaited; otherwise straight to finally.
RequestThrows(step) ==
    /\ step \in Throwing
    /\ orderStep = step
    /\ IF createdOrderId # <<>> /\ ~orderConfirmed
       THEN /\ cancelSent' = TRUE
            /\ orderStep' = "cleanup"
            /\ UNCHANGED <<loading, processingPayment>>
       ELSE /\ Finally("failed")
            /\ UNCHANGED cancelSent
    /\ UNCHANGED <<selectedPaymentType, selectedSavedMethodId, createdOrderId,
                   orderConfirmed, charged>>
    /\ UNCHANGED <<searchVars, cartVars, notificationVars, authVars>>

\* The PATCH of the catch block settles, resolved or rejected alike.
CleanupSettles ==
    /\ orderStep = "cleanup"
    /\ Finally("failed")
    /\ UNCHANGED <<selectedPaymentType, selectedSavedMethodId, createdOrderId,
                   orderConfirmed, charged, cancelSent>>
    /\ UNCHANGED <<searchVars, cartVars, notificationVars, authVars>>

CheckoutNext ==
    \/ \E ok \in BOOLEAN, ctx \in PaymentContexts : FetchPaymentContext(ok, ctx)
    \/ \E type \in {"wallet", "saved", "new"}, method \in SavedMethodIds :
           SelectPayment(type, method)
    \/ \E canUseWallet \in BOOLEAN, sheetUsable \in BOOLEAN :
           PressRejected(canUseWallet, sheetUsable)
    \/ \E canUseWallet \in BOOLEAN, sheetUsable \in BOOLEAN :
           PressAccepted(canUseWallet, sheetUsable)
    \/ OrderCreated
    \/ WalletPaid
    \/ WalletConfirmed
    \/ SavedMethodPaid
    \/ IntentCreated
    \/ SheetInitialized
    \/ SheetCompleted
    \/ SheetCanceled
    \/ CancelByUserSettles
    \/ PaymentConfirmed
    \/ \E ok \in BOOLEAN, ctx \in PaymentContexts : Refreshed(ok, ctx)
    \/ \E step \in Throwing : RequestThrows(step)
    \/ CleanupSettles

SpecCheckout == CheckoutInit /\ [][CheckoutNext]_vars

(***************************************************************************)
(* C22: no cancellation after a charge.                                    *)
(***************************************************************************)

\* C22: the request that sets the order's status to cancelled is sent only
\* if no charge for that order has succeeded.
C22_NoCancelAfterCharge == cancelSent => ~charged

(***************************************************************************)
(* C25: the cart and the two flags at the end of handlePlaceOrder.         *)
(***************************************************************************)

CartChanges == <<items, shopId, shopName>>' # <<items, shopId, shopName>>

\* C25: the cart is written only in a step that leaves the order confirmed;
\* a run ended by a guard, a failed request or the user's cancellation has
\* not confirmed the order; and loading and processingPayment are false
\* whenever the handler is not running.
C25_CartClearedOnlyWhenConfirmed ==
    /\ [](/\ orderStep \in Finished => ~loading /\ ~processingPayment
          /\ orderStep \in {"rejected", "failed", "cancelled"} => ~orderConfirmed)
    /\ [][CartChanges => orderConfirmed']_vars

\* The user has cancelled the payment sheet: the cart is as it was and the
\* flags are false again.
C25_Witness ==
    /\ orderStep = "cancelled"
    /\ cancelSent
    /\ Len(items) = 1
    /\ shopId = <<"s2">>
    /\ ~loading
    /\ ~processingPayment

---------------------------------------------------------------------------
(***************************************************************************)
(* C27: searchLoading and the requests in flight.                          *)
(***************************************************************************)

\* C27: searchLoading is true whenever a request of a timer callback is in
\* flight, and false once none is outstanding.
C27_LoadingWhileInFlight == searchLoading <=> (requests # <<>>)
===========================================================================
